---- MODULE Spec2Model ----
(***************************************************************************)
(* Model of the auscat-util query helpers:                                 *)
(*   src/auscatutil/queryfunctions.py  (classes SqlScriptRunner,           *)
(*                                      SPARQLQueryRunner)       impl "class"  *)
(*   src/queryfunctions.py             (module-level functions)  impl "module" *)
(* A single sequential caller invokes one operation at a time.  Text is a  *)
(* sequence of tokens: ";" is the semicolon character, every other token   *)
(* stands for a run of text that holds no semicolon.                       *)
(*                                                                         *)
(*   Spec         the relational operations                                *)
(*   SpecSparql   the SPARQL operations against a triple store             *)
(*   SpecPentaho  PentahoConnectionRemover.remove_connections on a file    *)
(*                system of project files                                  *)
(*   SpecRace     two rdfdb_create calls whose steps interleave            *)
(*   SpecEquiv    one script run through both run_sql_script versions      *)
(***************************************************************************)
EXTENDS Integers, Sequences, FiniteSets, TLC

VARIABLES
    pc,            \* position of the caller: "idle", a step of the call, "done"
    call,          \* the operation in progress and its arguments
    sql_commands,  \* run_sql_script: the list sql_file.split(";")
    idx,           \* run_sql_script: position of the for loop in sql_commands[:-1]
    conn,          \* this call's psycopg2 connection: "none", "open", "closed"
    cursor,        \* this call's cursor: "none", "open", "closed"
    engine,        \* this call's sqlalchemy engine: "unbound", "created", "disposed"
    exc,           \* exception in flight inside the call ("none" when there is none)
    raised,        \* exception that left the call ("none" when it returned normally)
    result,        \* the value the call returned
    errlog,        \* the logging.error calls made by this call
    sent,          \* requests this call sent to the database or endpoint, in order
    applied,       \* statements of this call that the database has made durable
    tables,        \* the database: qualified table name -> table or NoTable
    leaked,        \* connections opened by calls that have returned and never closed
    ncalls,        \* number of calls that have returned
    prev,          \* the previous successful commit_dataframe call, or None
    createrepo_ttl, \* content of the fixed file createrepo.ttl
    store,         \* the triple store: the set of <<graph, triple>> it holds
    files,         \* the file system: path -> what is stored there
    pathlist,      \* remove_connections: self.pathlist
    pidx,          \* remove_connections: position of the outer loop in pathlist
    listing,       \* remove_connections: names os.listdir(path) has yet to yield
    parsed,        \* remove_connections: paths handed to etree.parse
    written,       \* remove_connections: paths handed to tree.write
    creators,      \* two concurrent rdfdb_create calls: position, id, PUT body
    runs           \* one script run through both run_sql_script implementations

vars == <<pc, call, sql_commands, idx, conn, cursor, engine, exc, raised, result,
          errlog, sent, applied, tables, leaked, ncalls, prev, createrepo_ttl,
          store, files, pathlist, pidx, listing, parsed, written, creators, runs>>

\* the state of the project-file sanitizer, of the concurrent rdfdb_create
\* calls and of the side-by-side run_sql_script runs
pentahoVars == <<files, pathlist, pidx, listing, parsed, written>>
extra == <<pentahoVars, creators, runs>>

\* ------------------------------------------------------------------ bounds
MaxLen == 4        \* longest script text, in tokens
MaxCalls == 2      \* number of calls the caller makes
MaxNodes == 4      \* most elements in a project file
MaxBindings == 2   \* most solutions in a SPARQL result

\* ------------------------------------------------------------------ values
None == "None"
SelectT == "SELECT * FROM t"
Alphabet == {SelectT, "x", ";"}
Impls == {"class", "module"}

RECURSIVE TextsOfLen(_)
TextsOfLen(n) ==
    IF n = 0 THEN {<<>>}
    ELSE {Append(t, c) : t \in TextsOfLen(n - 1), c \in Alphabet}

Scripts == UNION {TextsOfLen(n) : n \in 0..MaxLen}

\* --------------------------------------------------------- str.split(";")
RECURSIVE split(_, _)
split(text, sep) ==
    IF \A i \in 1..Len(text) : text[i] # sep
    THEN <<text>>
    ELSE LET k == CHOOSE i \in 1..Len(text) :
                      text[i] = sep /\ \A j \in 1..(i - 1) : text[j] # sep
         IN  <<SubSeq(text, 1, k - 1)>> \o split(SubSeq(text, k + 1, Len(text)), sep)

\* sql_commands[:-1], the slice the for loop of run_sql_script walks
AllButLastTwo(cmds) == SubSeq(cmds, 1, Len(cmds) - 2)
AllButLast(cmds) == SubSeq(cmds, 1, Len(cmds) - 1)

\* sql_commands[0], the statement get_dataframe hands to read_sql_query
LastCommand(cmds) == cmds[Len(cmds)]
FirstCommand(cmds) == cmds[1]

\* ------------------------------------------------------------------ files
NoFile == [exists |-> FALSE, text |-> <<>>]
File(text) == [exists |-> TRUE, text |-> text]
ScriptFiles == {NoFile} \cup {File(t) : t \in Scripts}

\* YAML text is a sequence of lines; a line <<key, value>> is "key: value"
ConfigKeys == <<"hostname", "portnumber", "dbname", "dbUser", "dbPass">>
WellFormedYaml == <<<<"hostname", "h">>, <<"portnumber", "5432">>, <<"dbname", "d">>,
                    <<"dbUser", "u">>, <<"dbPass", "p">>>>
IncompleteYaml == <<<<"hostname", "h">>, <<"portnumber", "5432">>>>
MalformedYaml == <<<<"hostname", "h">>, <<"{">>>>
ConfigFiles == {NoFile, File(WellFormedYaml), File(IncompleteYaml), File(MalformedYaml)}

NoneValue == [kind |-> "None", items |-> {}]
Dict(items) == [kind |-> "dict", items |-> items]

\* ------------------------------------------------------ tables and frames
\* a DataFrame: column labels, index labels, one row of cells per index label
NoFrame == [kind |-> "None", columns |-> <<>>, index |-> <<>>, rows |-> <<>>]
Frame(columns, index, rows) ==
    [kind |-> "DataFrame", columns |-> columns, index |-> index, rows |-> rows]
Frames == {Frame(<<"a">>, <<0>>, <<<<7>>>>),
           Frame(<<"a", "b">>, <<0, 1>>, <<<<7, 8>>, <<9, 7>>>>)}

\* a database table: column names and rows
NoTable == [exists |-> FALSE, columns |-> <<>>, rows |-> <<>>]
Table(columns, rows) == [exists |-> TRUE, columns |-> columns, rows |-> rows]
DefaultSchema == "public"
QNames == {<<"public", "t">>, <<"staging", "t">>}
Schemas == {None, "staging"}

\* ---------------------------------------------------------------- logging
\* logging.error(msg, *args): the record is formatted as msg % args, which
\* works only when msg holds one placeholder per argument; otherwise the
\* handler reports a logging error on stderr and the call still returns.
LogRecord(site, error, placeholders, nargs) ==
    [site |-> site, error |-> error, formatted |-> (placeholders = nargs)]

\* the logging.error call of the except clause of `site`, reporting `error`:
\* the class methods write "... %s", error; the module-level functions write
\* "...", error with no placeholder (read_text_file excepted)
ErrorCall(impl, site, error) ==
    IF site = "get_yaml_config" THEN LogRecord(site, error, 0, 0)
    ELSE IF impl = "class" THEN LogRecord(site, error, 1, 1)
    ELSE IF site = "read_text_file" THEN LogRecord(site, error, 1, 1)
    ELSE LogRecord(site, error, 0, 1)

\* ------------------------------------------------------------- exceptions
DatabaseErrors == {"DatabaseError", "OperationalError"}

\* ------------------------------------------------------------ ConfigLoader
yaml_full_load(text) ==
    IF \E i \in 1..Len(text) : Len(text[i]) # 2
    THEN [exc |-> "YAMLError", value |-> NoneValue]
    ELSE [exc |-> "none",
          value |-> Dict({<<text[i][1], text[i][2]>> : i \in
                            {j \in 1..Len(text) :
                                \A k \in (j + 1)..Len(text) : text[k][1] # text[j][1]}})]

get_yaml_config_uncaught(configfile) ==
    IF ~configfile.exists
    THEN [exc |-> "OSError", value |-> NoneValue, log |-> <<>>]
    ELSE LET r == yaml_full_load(configfile.text)
         IN  [exc |-> r.exc, value |-> r.value, log |-> <<>>]

get_yaml_config(configfile) ==
    IF ~configfile.exists
    THEN [exc |-> "OSError", value |-> NoneValue, log |-> <<>>]
    ELSE LET r == yaml_full_load(configfile.text)
         IN  IF r.exc = "YAMLError"
             THEN [exc |-> "none", value |-> NoneValue,
                   log |-> <<ErrorCall("class", "get_yaml_config", r.exc)>>]
             ELSE [exc |-> r.exc, value |-> r.value, log |-> <<>>]

\* config["key"] for each key the connection parameters read, in order
Subscript_lenient(config, keys) == "none"
Subscript(config, keys) ==
    IF config.kind = "None" THEN "TypeError"
    ELSE IF \E i \in 1..Len(keys) : ~\E it \in config.items : it[1] = keys[i]
    THEN "KeyError"
    ELSE "none"

\* psycopg2.connect(...): the parameters are evaluated, then the server is dialled
connect(config, dbUp) ==
    LET e == Subscript(config, ConfigKeys)
    IN  IF e # "none" THEN e
        ELSE IF ~dbUp THEN "OperationalError"
        ELSE "none"

\* --------------------------------------------------------------- database
\* one request of a call to the database: what was asked and with what text
Req(req, text) == [req |-> req, text |-> text]

\* what cursor.execute(command) can do: the driver refuses an empty query with
\* a ProgrammingError (a DatabaseError); any other text succeeds or fails as
\* the server decides
ExecOutcomes(command) ==
    IF command = <<>> THEN {"DatabaseError"} ELSE {"ok", "DatabaseError", "Exception"}

Resolve(schema) == IF schema = None THEN DefaultSchema ELSE schema

\* DataFrame.to_sql(tablename, engine, if_exists="replace", schema=...): index
\* keeps its default True, so the index labels are written as a column
to_sql(frame) ==
    Table(<<"index">> \o frame.columns,
          [i \in 1..Len(frame.rows) |-> <<frame.index[i]>> \o frame.rows[i]])

\* pd.read_sql_query(sql, engine): the engine connects on first use
QueryOutcomes == {"ok", "DatabaseError", "OperationalError"}
read_sql_query(sql, tbls, outcome) ==
    IF outcome = "OperationalError"
    THEN [exc |-> "OperationalError", frame |-> NoFrame, sent |-> <<>>]
    ELSE IF outcome # "ok" \/ sql = <<>>
    THEN [exc |-> "DatabaseError", frame |-> NoFrame,
          sent |-> <<Req("read_sql_query", sql)>>]
    ELSE IF sql = <<SelectT>>
    THEN LET tb == tbls[<<DefaultSchema, "t">>]
         IN  IF tb.exists
             THEN [exc |-> "none",
                   frame |-> Frame(tb.columns, [i \in 1..Len(tb.rows) |-> i - 1], tb.rows),
                   sent |-> <<Req("read_sql_query", sql)>>]
             ELSE [exc |-> "DatabaseError", frame |-> NoFrame,
                   sent |-> <<Req("read_sql_query", sql)>>]
    ELSE [exc |-> "none", frame |-> Frame(<<>>, <<>>, <<>>),
          sent |-> <<Req("read_sql_query", sql)>>]

\* engine.dispose() in a finally clause: the name engine is unbound when the
\* try block failed before create_engine
dispose(e) ==
    IF e = "unbound"
    THEN [exc |-> "UnboundLocalError", engine |-> e]
    ELSE [exc |-> "none", engine |-> "disposed"]

\* ------------------------------------------------------------ caller state
\* what the surroundings do to a call: is the server reachable, how the
\* statement or request fares, can the csv file be opened, does commit work
Env(dbUp, outcome, csvOk, commitOk) ==
    [dbUp |-> dbUp, outcome |-> outcome, csvOk |-> csvOk, commitOk |-> commitOk]

\* store0, ttl0 and files0 are the triple store, createrepo.ttl and the file
\* system as the call found them; response is what the endpoint answered
NoFiles == <<>>
NoResponse == [vars |-> <<>>, bindings |-> <<>>]
NoCall == [op |-> "none", impl |-> "none", script |-> NoFile, config |-> NoFile,
           frame |-> NoFrame, schema |-> None, graph |-> None,
           env |-> Env(TRUE, "ok", TRUE, TRUE),
           store0 |-> {}, ttl0 |-> <<>>, files0 |-> NoFiles,
           response |-> NoResponse]

Idle ==
    /\ pc = "idle"
    /\ ncalls < MaxCalls

\* a call that ends before its body is reached: the exception leaves the call
Raise(c, e, log) ==
    /\ pc' = "done"
    /\ call' = c
    /\ raised' = e
    /\ exc' = "none"
    /\ errlog' = log
    /\ UNCHANGED <<sql_commands, idx, conn, cursor, engine, result, sent, applied,
                   tables, leaked, ncalls, prev, createrepo_ttl, store, extra>>

\* -------------------------------------------------------- run_sql_script
RunSqlCatches_Nothing(impl, e) == FALSE
RunSqlCatches(impl, e) ==
    IF impl = "module" THEN TRUE ELSE e \in DatabaseErrors

CallRunSqlScript ==
    /\ Idle
    /\ \E impl \in Impls, f \in ScriptFiles, cf \in ConfigFiles, dbUp \in BOOLEAN :
        LET c == [NoCall EXCEPT !.op = "run_sql_script", !.impl = impl,
                                !.script = f, !.config = cf,
                                !.env = Env(dbUp, "ok", TRUE, TRUE)]
            cfg == get_yaml_config(cf)
            ce == connect(cfg.value, dbUp)
        IN  IF ~f.exists THEN Raise(c, "OSError", <<>>)
            ELSE IF cfg.exc # "none" THEN Raise(c, cfg.exc, cfg.log)
            ELSE IF ce # "none" THEN Raise(c, ce, cfg.log)
            ELSE /\ pc' = "execute"
                 /\ call' = c
                 /\ sql_commands' = split(f.text, ";")
                 /\ idx' = 1
                 /\ conn' = "open"
                 /\ cursor' = "open"
                 /\ errlog' = cfg.log
                 /\ UNCHANGED <<engine, exc, raised, result, sent, applied, tables,
                                leaked, ncalls, prev, createrepo_ttl, store, extra>>

\* for command in sql_commands[:-1]: cursor.execute(command)
RunSqlExecute ==
    /\ pc = "execute"
    /\ IF idx > Len(AllButLast(sql_commands))
       THEN /\ pc' = "finally"
            /\ UNCHANGED <<sent, applied, exc>>
       ELSE \E outcome \in ExecOutcomes(AllButLast(sql_commands)[idx]) :
            /\ sent' = Append(sent, Req("execute", AllButLast(sql_commands)[idx]))
            /\ IF outcome = "ok"
               THEN /\ applied' = Append(applied, AllButLast(sql_commands)[idx])
                    /\ pc' = "commit"
                    /\ UNCHANGED exc
               ELSE /\ exc' = outcome
                    /\ pc' = "except"
                    /\ UNCHANGED applied
    /\ UNCHANGED <<call, sql_commands, idx, conn, cursor, engine, raised, result,
                   errlog, tables, leaked, ncalls, prev, createrepo_ttl, store, extra>>

\* conn.commit(), then the next iteration
RunSqlCommit ==
    /\ pc = "commit"
    /\ sent' = Append(sent, Req("commit", <<>>))
    /\ idx' = idx + 1
    /\ pc' = "execute"
    /\ UNCHANGED <<call, sql_commands, conn, cursor, engine, exc, raised, result,
                   errlog, applied, tables, leaked, ncalls, prev, createrepo_ttl, store, extra>>

\* the except clause of the try around the loop
RunSqlExcept ==
    /\ pc = "except"
    /\ IF RunSqlCatches(call.impl, exc)
       THEN /\ errlog' = Append(errlog, ErrorCall(call.impl, "run_sql_script", exc))
            /\ exc' = "none"
       ELSE UNCHANGED <<errlog, exc>>
    /\ pc' = "finally"
    /\ UNCHANGED <<call, sql_commands, idx, conn, cursor, engine, raised, result,
                   sent, applied, tables, leaked, ncalls, prev, createrepo_ttl, store, extra>>

\* the same close placed after the try statement instead of in its finally
\* clause: an exception in flight skips it
RunSqlCloseAfterTry ==
    /\ pc = "finally"
    /\ IF conn # "none" /\ exc = "none"
       THEN cursor' = "closed" /\ conn' = "closed"
       ELSE UNCHANGED <<cursor, conn>>
    /\ raised' = exc
    /\ exc' = "none"
    /\ pc' = "done"
    /\ UNCHANGED <<call, sql_commands, idx, engine, result, errlog, sent, applied,
                   tables, leaked, ncalls, prev, createrepo_ttl, store, extra>>

\* finally: if conn: cursor.close(); conn.close()
RunSqlFinally ==
    /\ pc = "finally"
    /\ IF conn # "none"
       THEN cursor' = "closed" /\ conn' = "closed"
       ELSE UNCHANGED <<cursor, conn>>
    /\ raised' = exc
    /\ exc' = "none"
    /\ pc' = "done"
    /\ UNCHANGED <<call, sql_commands, idx, engine, result, errlog, sent, applied,
                   tables, leaked, ncalls, prev, createrepo_ttl, store, extra>>

\* ------------------------------------------- operations that are one step
\* what a call leaves behind when control leaves it
Out(e, res, log, reqs, cn, cur, eng, tbls) ==
    [raised |-> e, result |-> res, log |-> log, sent |-> reqs, conn |-> cn,
     cursor |-> cur, engine |-> eng, tables |-> tbls]

FinishWith(c, o, st) ==
    /\ pc' = "done"
    /\ call' = c
    /\ raised' = o.raised
    /\ result' = o.result
    /\ errlog' = o.log
    /\ sent' = o.sent
    /\ conn' = o.conn
    /\ cursor' = o.cursor
    /\ engine' = o.engine
    /\ tables' = o.tables
    /\ applied' = <<>>
    /\ store' = st
    /\ UNCHANGED <<sql_commands, idx, exc, leaked, ncalls, prev, createrepo_ttl, extra>>

\* a call that leaves the triple store as it found it
Finish(c, o) == FinishWith([c EXCEPT !.store0 = store], o, store)

\* the keys the postgresql:// URL reads, in order
DbStringKeys == <<"dbUser", "dbPass", "hostname", "portnumber", "dbname">>

\* config = get_yaml_config(configfile); db_string = f'...{config[...]}...'
db_string(configfile) ==
    LET cfg == get_yaml_config(configfile)
    IN  [exc |-> IF cfg.exc # "none" THEN cfg.exc
                 ELSE Subscript(cfg.value, DbStringKeys),
         log |-> cfg.log]

\* ----------------------------------------------------------- get_dataframe
get_dataframe(impl, f, cf, outcome, tbls) ==
    IF ~f.exists
    THEN Out("OSError", NoFrame, <<>>, <<>>, "none", "none", "unbound", tbls)
    ELSE LET cmds == split(f.text, ";")
             s == db_string(cf)
             eng == IF s.exc = "none" THEN "created" ELSE "unbound"
             q == read_sql_query(FirstCommand(cmds), tbls, outcome)
             e == IF s.exc # "none" THEN s.exc ELSE q.exc
             log == IF e = "none" THEN s.log
                    ELSE Append(s.log, ErrorCall(impl, "get_dataframe", e))
             d == dispose(eng)
         IN  Out(d.exc,
                 IF e = "none" /\ d.exc = "none" THEN q.frame ELSE NoFrame,
                 log,
                 IF s.exc = "none" THEN q.sent ELSE <<>>,
                 "none", "none", d.engine, tbls)

CallGetDataframe ==
    /\ Idle
    /\ \E impl \in Impls, f \in ScriptFiles, cf \in ConfigFiles, outcome \in QueryOutcomes :
        Finish([NoCall EXCEPT !.op = "get_dataframe", !.impl = impl, !.script = f,
                              !.config = cf, !.env = Env(TRUE, outcome, TRUE, TRUE)],
               get_dataframe(impl, f, cf, outcome, tables))

\* --------------------------------------------------- get_dataframe_in_line
InlineCommands == {<<SelectT>>, <<"x">>}

get_dataframe_in_line(impl, sqlcommand, cf, outcome, tbls) ==
    LET s == db_string(cf)
        q == read_sql_query(sqlcommand, tbls, outcome)
        d == dispose("created")
    IN  IF s.exc # "none"
        THEN Out(s.exc, NoFrame, s.log, <<>>, "none", "none", "unbound", tbls)
        ELSE Out(d.exc,
                 q.frame,
                 IF q.exc = "none" THEN s.log
                 ELSE Append(s.log, ErrorCall(impl, "get_dataframe_in_line", q.exc)),
                 q.sent, "none", "none", d.engine, tbls)

CallGetDataframeInLine ==
    /\ Idle
    /\ \E impl \in Impls, cmd \in InlineCommands, cf \in ConfigFiles,
          outcome \in QueryOutcomes :
        Finish([NoCall EXCEPT !.op = "get_dataframe_in_line", !.impl = impl,
                              !.script = File(cmd), !.config = cf,
                              !.env = Env(TRUE, outcome, TRUE, TRUE)],
               get_dataframe_in_line(impl, cmd, cf, outcome, tables))

\* -------------------------------------------------------- commit_dataframe
commit_dataframe(impl, frame, schema, cf, outcome, tbls) ==
    LET s == db_string(cf)
        d == dispose("created")
    IN  IF s.exc # "none"
        THEN Out(s.exc, NoFrame, s.log, <<>>, "none", "none", "unbound", tbls)
        ELSE IF outcome = "ok"
        THEN Out(d.exc, NoFrame, s.log, <<Req("to_sql", <<Resolve(schema), "t">>)>>,
                 "none", "none", d.engine,
                 [tbls EXCEPT ![<<Resolve(schema), "t">>] = to_sql(frame)])
        ELSE Out(d.exc, NoFrame, Append(s.log, ErrorCall(impl, "commit_dataframe", outcome)),
                 IF outcome = "OperationalError" THEN <<>>
                 ELSE <<Req("to_sql", <<Resolve(schema), "t">>)>>,
                 "none", "none", d.engine, tbls)

CallCommitDataframe ==
    /\ Idle
    /\ \E impl \in Impls, fr \in Frames, sch \in Schemas, cf \in ConfigFiles,
          outcome \in QueryOutcomes :
        Finish([NoCall EXCEPT !.op = "commit_dataframe", !.impl = impl, !.frame = fr,
                              !.schema = sch, !.config = cf,
                              !.env = Env(TRUE, outcome, TRUE, TRUE)],
               commit_dataframe(impl, fr, sch, cf, outcome, tables))

\* ------------------------------------------------ import_csv, export_to_csv
\* read_text_file of src/queryfunctions.py: a failed read is logged and None
\* is returned
read_text_file(f) ==
    IF f.exists THEN [none |-> FALSE, log |-> <<>>]
    ELSE [none |-> TRUE, log |-> <<ErrorCall("module", "read_text_file", "OSError")>>]

CopyFiles == {NoFile, File(<<"x">>)}
CopyOutcomes == {"ok", "DatabaseError"}

\* the body import_csv and export_to_csv share: connect, read the command,
\* open the csv file, cursor.copy_expert, then try: conn.commit()
copy_csv(site, impl, f, csvOk, cf, dbUp, outcome, commitOk, tbls) ==
    LET cfg == get_yaml_config(cf)
        ce == IF cfg.exc # "none" THEN cfg.exc ELSE connect(cfg.value, dbUp)
        rd == IF impl = "module" THEN read_text_file(f)
              ELSE [none |-> FALSE, log |-> <<>>]
        log == cfg.log \o rd.log
        req == <<Req("copy_expert", f.text)>>
    IN  IF ce # "none"
        THEN Out(ce, NoFrame, cfg.log, <<>>, "none", "none", "unbound", tbls)
        ELSE IF impl = "class" /\ ~f.exists
        THEN Out("OSError", NoFrame, log, <<>>, "open", "open", "unbound", tbls)
        ELSE IF ~csvOk
        THEN Out("OSError", NoFrame, log, <<>>, "open", "open", "unbound", tbls)
        ELSE IF rd.none
        THEN Out("TypeError", NoFrame, log, <<>>, "open", "open", "unbound", tbls)
        ELSE IF outcome # "ok"
        THEN Out(outcome, NoFrame, log, req, "open", "open", "unbound", tbls)
        ELSE IF ~commitOk
        THEN Out("none", NoFrame, Append(log, ErrorCall(impl, site, "DatabaseError")),
                 Append(req, Req("commit", <<>>)), "open", "open", "unbound", tbls)
        ELSE Out("none", NoFrame, log, Append(req, Req("commit", <<>>)),
                 "open", "open", "unbound", tbls)

import_csv(impl, f, csvOk, cf, dbUp, outcome, commitOk, tbls) ==
    copy_csv("import_csv", impl, f, csvOk, cf, dbUp, outcome, commitOk, tbls)

export_to_csv(impl, f, csvOk, cf, dbUp, outcome, commitOk, tbls) ==
    copy_csv("export_to_csv", impl, f, csvOk, cf, dbUp, outcome, commitOk, tbls)

CallImportCsv ==
    /\ Idle
    /\ \E impl \in Impls, f \in CopyFiles, csvOk \in BOOLEAN, cf \in ConfigFiles,
          dbUp \in BOOLEAN, outcome \in CopyOutcomes, commitOk \in BOOLEAN :
        Finish([NoCall EXCEPT !.op = "import_csv", !.impl = impl, !.script = f,
                              !.config = cf,
                              !.env = Env(dbUp, outcome, csvOk, commitOk)],
               import_csv(impl, f, csvOk, cf, dbUp, outcome, commitOk, tables))

CallExportToCsv ==
    /\ Idle
    /\ \E impl \in Impls, f \in CopyFiles, csvOk \in BOOLEAN, cf \in ConfigFiles,
          dbUp \in BOOLEAN, outcome \in CopyOutcomes, commitOk \in BOOLEAN :
        Finish([NoCall EXCEPT !.op = "export_to_csv", !.impl = impl, !.script = f,
                              !.config = cf,
                              !.env = Env(dbUp, outcome, csvOk, commitOk)],
               export_to_csv(impl, f, csvOk, cf, dbUp, outcome, commitOk, tables))

\* ---------------------------------------------------------- dataframe_to_csv
\* show_psycopg2_exception(err): two logging.error calls, then err.diag, which
\* only a psycopg2 error has, then three more logging.error calls
show_psycopg2_exception(err) ==
    LET rec(n) == LogRecord("show_psycopg2_exception", err, 0, n)
    IN  IF err \in DatabaseErrors
        THEN [exc |-> "none", log |-> <<rec(3), rec(3), rec(1), rec(1), rec(2)>>]
        ELSE [exc |-> "AttributeError", log |-> <<rec(3), rec(3)>>]

dataframe_to_csv(frame, csvOk, cf, dbUp, outcome, tbls) ==
    LET cfg == get_yaml_config(cf)
        ce == IF cfg.exc # "none" THEN cfg.exc ELSE connect(cfg.value, dbUp)
        req == <<Req("copy_from", <<"t">>)>>
        sh == show_psycopg2_exception(outcome)
    IN  IF ce # "none"
        THEN Out(ce, NoFrame, cfg.log, <<>>, "none", "none", "unbound", tbls)
        ELSE IF ~csvOk
        THEN Out("OSError", NoFrame, cfg.log, <<>>, "open", "open", "unbound", tbls)
        ELSE IF outcome = "ok"
        THEN Out("none", NoFrame, cfg.log, Append(req, Req("commit", <<>>)),
                 "open", "open", "unbound", tbls)
        ELSE Out(sh.exc, NoFrame, cfg.log \o sh.log, req, "open",
                 IF sh.exc = "none" THEN "closed" ELSE "open", "unbound", tbls)

CallDataframeToCsv ==
    /\ Idle
    /\ \E fr \in Frames, csvOk \in BOOLEAN, cf \in ConfigFiles, dbUp \in BOOLEAN,
          outcome \in {"ok", "DatabaseError", "Exception"} :
        Finish([NoCall EXCEPT !.op = "dataframe_to_csv", !.impl = "module",
                              !.frame = fr, !.config = cf,
                              !.env = Env(dbUp, outcome, csvOk, TRUE)],
               dataframe_to_csv(fr, csvOk, cf, dbUp, outcome, tables))

\* ---------------------------------------------------------- get_yaml_config
CallGetYamlConfig ==
    /\ Idle
    /\ \E impl \in Impls, cf \in ConfigFiles :
        LET cfg == get_yaml_config(cf)
        IN  Finish([NoCall EXCEPT !.op = "get_yaml_config", !.impl = impl,
                                  !.config = cf],
                   Out(cfg.exc, cfg.value, cfg.log, <<>>, "none", "none", "unbound",
                       tables))

\* ------------------------------------------------- control leaves the call
NoPrev == [set |-> FALSE, frame |-> NoFrame, schema |-> None]

Return ==
    /\ pc = "done"
    /\ pc' = "idle"
    /\ ncalls' = ncalls + 1
    /\ leaked' = leaked + (IF conn = "open" THEN 1 ELSE 0)
    /\ prev' = IF call.op = "commit_dataframe" /\ raised = "none" /\ errlog = <<>>
               THEN [set |-> TRUE, frame |-> call.frame, schema |-> call.schema]
               ELSE NoPrev
    /\ call' = NoCall
    /\ sql_commands' = <<>>
    /\ idx' = 0
    /\ conn' = "none"
    /\ cursor' = "none"
    /\ engine' = "unbound"
    /\ exc' = "none"
    /\ raised' = "none"
    /\ result' = NoFrame
    /\ errlog' = <<>>
    /\ sent' = <<>>
    /\ applied' = <<>>
    /\ UNCHANGED <<tables, createrepo_ttl, store, extra>>

\* ----------------------------------------------------------- specification
\* ------------------------------------- run_sql_script from entry to exit
\* how each statement of a script fares, statement by statement
RECURSIVE OutcomeLists(_)
OutcomeLists(cmds) ==
    IF cmds = <<>> THEN {<<>>}
    ELSE {<<o>> \o rest : o \in ExecOutcomes(Head(cmds)), rest \in OutcomeLists(Tail(cmds))}

\* what one run_sql_script call leaves behind
RunResult(executed, committed, cn, e, log) ==
    [executed |-> executed, committed |-> committed, conn |-> cn, raised |-> e,
     log |-> log]
NoResult == RunResult(<<>>, <<>>, "none", "none", <<>>)

\* run_sql_script of `impl` from entry to exit, the i-th statement of the
\* loop faring as outcomes[i]: the loop runs up to the first statement that
\* does not succeed, the except clause catches what it names, the finally
\* clause closes the connection
run_sql_script(impl, f, cf, dbUp, outcomes) ==
    LET cfg == get_yaml_config(cf)
        ce == connect(cfg.value, dbUp)
        cmds == AllButLast(split(f.text, ";"))
        failing == {i \in 1..Len(cmds) : outcomes[i] # "ok"}
        stop == IF failing = {} THEN Len(cmds) + 1
                ELSE CHOOSE i \in failing : \A j \in failing : i <= j
        e == IF failing = {} THEN "none" ELSE outcomes[stop]
        caught == e # "none" /\ RunSqlCatches(impl, e)
    IN  IF ~f.exists THEN RunResult(<<>>, <<>>, "none", "OSError", <<>>)
        ELSE IF cfg.exc # "none" THEN RunResult(<<>>, <<>>, "none", cfg.exc, cfg.log)
        ELSE IF ce # "none" THEN RunResult(<<>>, <<>>, "none", ce, cfg.log)
        ELSE RunResult(SubSeq(cmds, 1, IF failing = {} THEN Len(cmds) ELSE stop),
                       SubSeq(cmds, 1, stop - 1),
                       "closed",
                       IF caught THEN "none" ELSE e,
                       cfg.log \o (IF caught
                                   THEN <<ErrorCall(impl, "run_sql_script", e)>>
                                   ELSE <<>>))

NoRuns == [set |-> FALSE, script |-> NoFile, config |-> NoFile, dbUp |-> TRUE,
           outcomes |-> <<>>, class |-> NoResult, module |-> NoResult]

NoCreators == <<>>

\* nothing is under way in the sanitizer, in the concurrent rdfdb_create calls
\* or in the side-by-side runs
InitExtra ==
    /\ files = NoFiles
    /\ pathlist = <<>>
    /\ pidx = 0
    /\ listing = {}
    /\ parsed = {}
    /\ written = {}
    /\ creators = NoCreators
    /\ runs = NoRuns

InitCaller ==
    /\ pc = "idle"
    /\ call = NoCall
    /\ sql_commands = <<>>
    /\ idx = 0
    /\ conn = "none"
    /\ cursor = "none"
    /\ engine = "unbound"
    /\ exc = "none"
    /\ raised = "none"
    /\ result = NoFrame
    /\ errlog = <<>>
    /\ sent = <<>>
    /\ applied = <<>>
    /\ tables = [q \in QNames |-> NoTable]
    /\ leaked = 0
    /\ ncalls = 0
    /\ prev = NoPrev
    /\ createrepo_ttl = <<>>

Init ==
    /\ InitCaller
    /\ store = {}
    /\ InitExtra

Next ==
    \/ CallRunSqlScript
    \/ RunSqlExecute
    \/ RunSqlCommit
    \/ RunSqlExcept
    \/ RunSqlFinally
    \/ CallGetDataframe
    \/ CallGetDataframeInLine
    \/ CallCommitDataframe
    \/ CallImportCsv
    \/ CallExportToCsv
    \/ CallDataframeToCsv
    \/ CallGetYamlConfig
    \/ Return

Spec == Init /\ [][Next]_vars

\* =========================================================== SPARQL side
\* a SPARQL JSON result: head.vars and results.bindings; a binding is a set
\* of <<variable, value>> pairs
VarLists == {<<>>, <<"s">>, <<"s", "o">>, <<"o", "s">>}
Bindings == {{}, {<<"s", "1">>}, {<<"s", "3">>}, {<<"o", "2">>},
             {<<"s", "1">>, <<"o", "2">>}, {<<"s", "3">>, <<"o", "2">>}}

RECURSIVE BindingLists(_)
BindingLists(n) ==
    IF n = 0 THEN {<<>>}
    ELSE {Append(l, b) : l \in BindingLists(n - 1), b \in Bindings}

Responses ==
    {[vars |-> vs, bindings |-> bs] :
        vs \in VarLists, bs \in UNION {BindingLists(n) : n \in 0..MaxBindings}}
QueryFiles == {NoFile, File(<<"q">>)}
Graphs == {None, "<g>"}
RepoIds == {"r1", "r2"}
NaN == "NaN"

\* the cell d.at[0, v] of one binding: result[v]["value"] if v in result
\* else np.NaN
Cell(binding, v) ==
    IF \E b \in binding : b[1] = v
    THEN (CHOOSE b \in binding : b[1] = v)[2]
    ELSE NaN

\* the frame the loop over results["results"]["bindings"] builds: each
\* binding gives a one-row frame d through d.at[0, v], which pd.concat appends
\* with ignore_index=True; with no variable no cell is set, d stays empty and
\* the binding adds no row
flatten_dropna(response) ==
    LET bound == SelectSeq(response.bindings,
                           LAMBDA b : \A c \in 1..Len(response.vars) :
                                          \E x \in b : x[1] = response.vars[c])
    IN  Frame(response.vars, [r \in 1..Len(bound) |-> r - 1],
              [r \in 1..Len(bound) |->
                  [c \in 1..Len(response.vars) |-> Cell(bound[r], response.vars[c])]])
flatten(response) ==
    LET n == IF response.vars = <<>> THEN 0 ELSE Len(response.bindings)
    IN  Frame(response.vars,
              [r \in 1..n |-> r - 1],
              [r \in 1..n |->
                  [c \in 1..Len(response.vars) |->
                      Cell(response.bindings[r], response.vars[c])]])

\* run_sparql_query / sparql_query: `data` is bound inside the try block, after
\* the request; the return statement after the try reads it.  bad is the
\* position of a binding that lacks "value" (0: there is none): the KeyError
\* ends the loop and `data` holds the rows of the bindings before it
run_sparql_query(impl, q, outcome, response, bad) ==
    LET err == ErrorCall(impl, "run_sparql_query", "Exception")
    IN  IF ~q.exists
        THEN Out("OSError", NoFrame, <<>>, <<>>, "none", "none", "unbound", tables)
        ELSE IF outcome = "fail"
        THEN Out("UnboundLocalError", NoFrame, <<err>>, <<Req("query", q.text)>>,
                 "none", "none", "unbound", tables)
        ELSE IF bad > 0
        THEN Out("none",
                 flatten([response EXCEPT !.bindings = SubSeq(@, 1, bad - 1)]),
                 <<err>>, <<Req("query", q.text)>>, "none", "none", "unbound", tables)
        ELSE Out("none", flatten(response), <<>>, <<Req("query", q.text)>>,
                 "none", "none", "unbound", tables)

CallRunSparqlQuery ==
    /\ Idle
    /\ \E impl \in Impls, q \in QueryFiles, outcome \in {"ok", "fail"},
          response \in Responses :
        \E bad \in 0..(IF outcome = "ok" /\ response.vars # <<>>
                       THEN Len(response.bindings) ELSE 0) :
            Finish([NoCall EXCEPT !.op = "run_sparql_query", !.impl = impl, !.script = q,
                                  !.response = response,
                                  !.env = Env(TRUE,
                                              IF bad > 0 THEN "bad_binding" ELSE outcome,
                                              TRUE, TRUE)],
                   run_sparql_query(impl, q, outcome, response, bad))

\* sparql_query_return_xml and sparql_query_return_json: `results` / `result`
\* is bound inside the try block and returned after it
Serialized(format) == [kind |-> format, columns |-> <<>>, index |-> <<>>, rows |-> <<>>]

sparql_query_return(site, format, impl, q, outcome) ==
    IF ~q.exists
    THEN Out("OSError", NoFrame, <<>>, <<>>, "none", "none", "unbound", tables)
    ELSE IF outcome = "fail"
    THEN Out("UnboundLocalError", NoFrame, <<ErrorCall(impl, site, "Exception")>>,
             <<Req("query", q.text)>>, "none", "none", "unbound", tables)
    ELSE Out("none", Serialized(format), <<>>, <<Req("query", q.text)>>,
             "none", "none", "unbound", tables)

CallSparqlQueryReturnXml ==
    /\ Idle
    /\ \E impl \in Impls, q \in QueryFiles, outcome \in {"ok", "fail"} :
        Finish([NoCall EXCEPT !.op = "sparql_query_return_xml", !.impl = impl,
                              !.script = q, !.env = Env(TRUE, outcome, TRUE, TRUE)],
               sparql_query_return("sparql_query_return_xml", "xml", impl, q, outcome))

CallSparqlQueryReturnJson ==
    /\ Idle
    /\ \E impl \in Impls, q \in QueryFiles, outcome \in {"ok", "fail"} :
        Finish([NoCall EXCEPT !.op = "sparql_query_return_json", !.impl = impl,
                              !.script = q, !.env = Env(TRUE, outcome, TRUE, TRUE)],
               sparql_query_return("sparql_query_return_json", "json", impl, q, outcome))

\* ------------------------------------------------------- the triple store
\* the store holds quads <<graph, triple>>; the graph None is the default graph
Triples == {"q"}
StoreGraphs == Graphs \cup {"<h>"}
Quads == StoreGraphs \X Triples

\* tokens of an update that are punctuation or keywords, not triples
Keywords == {"{", "}", "graph", "GRAPH", "where", "WHERE", "delete", "DELETE",
             "INSERT", "DATA"}
TriplePattern == <<"?s", "?p", "?o", ".">>

\* SPARQL 1.1 Update grammar, QuadPattern / QuadData:
\*   '{' triples '}'  or  '{' GRAPH iri '{' triples '}' '}'
QuadBlock(text) ==
    LET n == Len(text)
        bad == [ok |-> FALSE, graph |-> None, triples |-> <<>>]
        plain(ts) == \A k \in 1..Len(ts) : ts[k] \notin Keywords
    IN  IF n < 2 \/ text[1] # "{" \/ text[n] # "}" THEN bad
        ELSE LET inner == SubSeq(text, 2, n - 1)
                 m == Len(inner)
             IN  IF m >= 1 /\ inner[1] \in {"graph", "GRAPH"}
                 THEN IF m >= 4 /\ inner[2] \notin Keywords /\ inner[3] = "{"
                         /\ inner[m] = "}" /\ plain(SubSeq(inner, 4, m - 1))
                      THEN [ok |-> TRUE, graph |-> inner[2],
                            triples |-> SubSeq(inner, 4, m - 1)]
                      ELSE bad
                 ELSE IF plain(inner)
                 THEN [ok |-> TRUE, graph |-> None, triples |-> inner]
                 ELSE bad

\* the triples of `st` that an update block addresses: a block without GRAPH
\* addresses the default graph, which the store takes to be either the graph
\* None alone (SPARQL 1.1) or the union of all graphs (RDF4J)
Addressed(st, block, union) ==
    {x \in st : IF block.graph = None THEN (union \/ x[1] = None)
                ELSE x[1] = block.graph}

\* what the endpoint does with the text of an update request:
\*   DELETE WHERE QuadPattern
\*   DELETE QuadPattern WHERE GroupGraphPattern
\*   INSERT DATA QuadData
\* anything else is refused as malformed and changes nothing
endpoint_update(text, st, union) ==
    LET n == Len(text)
        refused == [exc |-> "QueryBadFormed", store |-> st]
        wheres == {k \in 3..n : text[k] \in {"where", "WHERE"}}
    IN  IF n >= 2 /\ text[1] \in {"delete", "DELETE"} /\ text[2] \in {"where", "WHERE"}
        THEN LET b == QuadBlock(SubSeq(text, 3, n))
             IN  IF b.ok /\ b.triples = TriplePattern
                 THEN [exc |-> "none", store |-> st \ Addressed(st, b, union)]
                 ELSE refused
        ELSE IF n >= 1 /\ text[1] \in {"delete", "DELETE"}
        THEN IF \E k \in wheres : QuadBlock(SubSeq(text, 2, k - 1)).ok
                                  /\ QuadBlock(SubSeq(text, k + 1, n)).ok
             THEN LET k == CHOOSE k \in wheres :
                               QuadBlock(SubSeq(text, 2, k - 1)).ok
                               /\ QuadBlock(SubSeq(text, k + 1, n)).ok
                      d == QuadBlock(SubSeq(text, 2, k - 1))
                      w == QuadBlock(SubSeq(text, k + 1, n))
                  IN  [exc |-> "none",
                       store |-> st \ {x \in Addressed(st, d, union) :
                                         \E y \in Addressed(st, w, union) : y[2] = x[2]}]
             ELSE refused
        ELSE IF n >= 2 /\ text[1] = "INSERT" /\ text[2] = "DATA"
        THEN LET b == QuadBlock(SubSeq(text, 3, n))
             IN  IF b.ok
                 THEN [exc |-> "none",
                       store |-> st \cup {<<b.graph, b.triples[k]>> :
                                            k \in 1..Len(b.triples)}]
                 ELSE refused
        ELSE refused

\* sparql.query() on an update: the request reaches the endpoint or it does
\* not; a refusal by the endpoint comes back as an exception too
send_update(text, outcome, st, union) ==
    IF outcome = "fail" THEN [exc |-> "Exception", store |-> st]
    ELSE endpoint_update(text, st, union)

\* the update text rdfdb_clear builds
clear_query(rdf_graph) ==
    IF rdf_graph = None
    THEN <<"delete", "where", "{", "?s", "?p", "?o", ".", "}">>
    ELSE <<"delete", "{", "graph", rdf_graph, "where", "{", "?s", "?p", "?o", ".",
           "}", "}">>

\* rdfdb_clear: the outcome of the call and the store it leaves
rdfdb_clear(impl, rdf_graph, outcome, st, union) ==
    LET r == send_update(clear_query(rdf_graph), outcome, st, union)
    IN  [out |-> Out("none", NoFrame,
                     IF r.exc # "none"
                     THEN <<ErrorCall(impl, "rdfdb_clear", r.exc)>>
                     ELSE <<>>,
                     <<Req("update", clear_query(rdf_graph))>>,
                     "none", "none", "unbound", tables),
         store |-> r.store]

CallRdfdbClear ==
    /\ Idle
    /\ \E impl \in Impls, g \in Graphs, outcome \in {"ok", "fail"}, union \in BOOLEAN :
        LET r == rdfdb_clear(impl, g, outcome, store, union)
        IN  FinishWith([NoCall EXCEPT !.op = "rdfdb_clear", !.impl = impl, !.graph = g,
                                      !.env = Env(TRUE, outcome, TRUE, TRUE),
                                      !.store0 = store],
                       r.out, r.store)

\* the update text rdfdb_insert builds around the triples it read
insert_query(ttl_file, rdf_graph) ==
    IF rdf_graph = None
    THEN <<"INSERT", "DATA", "{">> \o ttl_file \o <<"}">>
    ELSE <<"INSERT", "DATA", "{", "GRAPH", rdf_graph, "{">> \o ttl_file \o <<"}", "}">>

rdfdb_insert(impl, f, rdf_graph, outcome, st, union) ==
    IF ~f.exists
    THEN [out |-> Out("OSError", NoFrame, <<>>, <<>>, "none", "none", "unbound", tables),
          store |-> st]
    ELSE LET r == send_update(insert_query(f.text, rdf_graph), outcome, st, union)
         IN  [out |-> Out("none", NoFrame,
                          IF r.exc # "none"
                          THEN <<ErrorCall(impl, "rdfdb_insert", r.exc)>>
                          ELSE <<>>,
                          <<Req("update", insert_query(f.text, rdf_graph))>>,
                          "none", "none", "unbound", tables),
               store |-> r.store]

CallRdfdbInsert ==
    /\ Idle
    /\ \E impl \in Impls, f \in QueryFiles, g \in Graphs, outcome \in {"ok", "fail"},
          union \in BOOLEAN :
        LET r == rdfdb_insert(impl, f, g, outcome, store, union)
        IN  FinishWith([NoCall EXCEPT !.op = "rdfdb_insert", !.impl = impl, !.script = f,
                                      !.graph = g, !.env = Env(TRUE, outcome, TRUE, TRUE),
                                      !.store0 = store],
                       r.out, r.store)

\* the repository description rdfdb_create fills in with the repository id
descriptor_fixed(rdf_repository) == <<"rep:repositoryID", "r1", "rdfs:label", "r1">>
descriptor(rdf_repository) ==
    <<"rep:repositoryID", rdf_repository, "rdfs:label", rdf_repository>>

\* open("createrepo.ttl", "w"): the file is truncated, the handle stands at 0
open_w(content) == <<>>

\* file.write(temp) and the end of the with block: the text reaches the file
\* at the handle's position, the start of the file
file_write(content, text) == text \o SubSeq(content, Len(text) + 1, Len(content))

\* curl -X PUT --data-binary @createrepo.ttl in a shell: curl reads the file
\* as it is then; a failing curl is an exit status, not an exception, and
\* only a Popen that cannot start raises
curl_put(content, outcome) ==
    IF outcome = "popen_raises" THEN <<>> ELSE <<Req("PUT", content)>>

\* rdfdb_create, up to the opening of createrepo.ttl
CallRdfdbCreate ==
    /\ Idle
    /\ \E impl \in Impls, id \in RepoIds, outcome \in {"ok", "fail", "popen_raises"} :
        call' = [NoCall EXCEPT !.op = "rdfdb_create", !.impl = impl, !.graph = id,
                               !.env = Env(TRUE, outcome, TRUE, TRUE),
                               !.store0 = store, !.ttl0 = createrepo_ttl]
    /\ createrepo_ttl' = open_w(createrepo_ttl)
    /\ pc' = "create_write"
    /\ UNCHANGED <<sql_commands, idx, conn, cursor, engine, exc, raised, result, errlog,
                   sent, applied, tables, leaked, ncalls, prev, store, extra>>

\* rdfdb_create: file.write(temp), and the with block closes the file
RdfdbCreateWriteSkipped ==
    /\ pc = "create_write"
    /\ pc' = "create_put"
    /\ UNCHANGED <<call, sql_commands, idx, conn, cursor, engine, exc, raised, result,
                   errlog, sent, applied, tables, leaked, ncalls, prev, createrepo_ttl,
                   store, extra>>
RdfdbCreateWrite ==
    /\ pc = "create_write"
    /\ createrepo_ttl' = file_write(createrepo_ttl, descriptor(call.graph))
    /\ pc' = "create_put"
    /\ UNCHANGED <<call, sql_commands, idx, conn, cursor, engine, exc, raised, result,
                   errlog, sent, applied, tables, leaked, ncalls, prev, store, extra>>

\* rdfdb_create: the try block around Popen(...).wait()
RdfdbCreatePut ==
    /\ pc = "create_put"
    /\ sent' = curl_put(createrepo_ttl, call.env.outcome)
    /\ errlog' = IF call.env.outcome = "popen_raises"
                 THEN <<ErrorCall(call.impl, "rdfdb_create", "OSError")>>
                 ELSE <<>>
    /\ raised' = "none"
    /\ pc' = "done"
    /\ UNCHANGED <<call, sql_commands, idx, conn, cursor, engine, exc, result, applied,
                   tables, leaked, ncalls, prev, createrepo_ttl, store, extra>>

NextSparql ==
    \/ CallRunSparqlQuery
    \/ CallSparqlQueryReturnXml
    \/ CallSparqlQueryReturnJson
    \/ CallRdfdbClear
    \/ CallRdfdbInsert
    \/ CallRdfdbCreate
    \/ RdfdbCreateWrite
    \/ RdfdbCreatePut
    \/ Return

\* the repository may hold anything when the caller starts
InitSparql ==
    /\ InitCaller
    /\ store \in SUBSET Quads
    /\ InitExtra

SpecSparql == InitSparql /\ [][NextSparql]_vars

\* ===================================== two rdfdb_create calls side by side
\* two callers, each in one rdfdb_create call of its own, in the same working
\* directory: the steps of the two calls interleave freely.  disturbed records
\* that the other call opened or wrote createrepo.ttl after this call wrote it
Procs == {1, 2}
Other(p) == CHOOSE q \in Procs : q # p
Creator(id, outcome) ==
    [pc |-> "start", id |-> id, outcome |-> outcome, sent |-> <<>>, disturbed |-> FALSE]

raceRest == <<pc, call, sql_commands, idx, conn, cursor, engine, exc, raised, result,
              errlog, sent, applied, tables, leaked, ncalls, prev, store, pentahoVars,
              runs>>

\* the other call, after this one touched the file
Disturb(c) == IF c.pc = "written" THEN [c EXCEPT !.disturbed = TRUE] ELSE c

\* with open("createrepo.ttl", "w", encoding="utf-8") as file:
RaceOpen(p) ==
    /\ creators[p].pc = "start"
    /\ createrepo_ttl' = open_w(createrepo_ttl)
    /\ creators' = [q \in Procs |-> IF q = p THEN [creators[p] EXCEPT !.pc = "opened"]
                                    ELSE Disturb(creators[q])]
    /\ UNCHANGED raceRest

\* file.write(temp), and the with block closes the file
RaceWrite(p) ==
    /\ creators[p].pc = "opened"
    /\ createrepo_ttl' = file_write(createrepo_ttl, descriptor(creators[p].id))
    /\ creators' = [q \in Procs |-> IF q = p THEN [creators[p] EXCEPT !.pc = "written"]
                                    ELSE Disturb(creators[q])]
    /\ UNCHANGED raceRest

\* subprocess.Popen("curl -X PUT ... @createrepo.ttl ...").wait()
RacePut(p) ==
    /\ creators[p].pc = "written"
    /\ creators' = [creators EXCEPT ![p].pc = "done",
                                    ![p].sent = curl_put(createrepo_ttl,
                                                         creators[p].outcome)]
    /\ UNCHANGED <<createrepo_ttl, raceRest>>

InitRace ==
    /\ InitCaller
    /\ store = {}
    /\ files = NoFiles
    /\ pathlist = <<>>
    /\ pidx = 0
    /\ listing = {}
    /\ parsed = {}
    /\ written = {}
    /\ runs = NoRuns
    /\ creators \in [Procs -> {Creator(id, outcome) :
                                 id \in RepoIds,
                                 outcome \in {"ok", "fail", "popen_raises"}}]

NextRace ==
    \E p \in Procs :
        \/ RaceOpen(p)
        \/ RaceWrite(p)
        \/ RacePut(p)

SpecRace == InitRace /\ [][NextRace]_vars

\* ============================ the two run_sql_script implementations
equivRest == <<pc, call, sql_commands, idx, conn, cursor, engine, exc, raised, result,
               errlog, sent, applied, tables, leaked, ncalls, prev, createrepo_ttl,
               store, pentahoVars, creators>>

\* the same script, configuration and database behaviour given to
\* SqlScriptRunner.run_sql_script and to the module-level run_sql_script
RunBoth ==
    /\ ~runs.set
    /\ \E f \in ScriptFiles, cf \in ConfigFiles, dbUp \in BOOLEAN :
        \E outcomes \in OutcomeLists(AllButLast(split(f.text, ";"))) :
            runs' = [set |-> TRUE, script |-> f, config |-> cf, dbUp |-> dbUp,
                     outcomes |-> outcomes,
                     class |-> run_sql_script("class", f, cf, dbUp, outcomes),
                     module |-> run_sql_script("module", f, cf, dbUp, outcomes)]
    /\ UNCHANGED equivRest

NextEquiv == RunBoth

SpecEquiv == Init /\ [][NextEquiv]_vars

\* ================================================= project file sanitizer
\* an XML element: namespace, local name, attributes, the text that follows
\* its end tag, and its child elements in document order
Element(kind, children) ==
    [ns |-> kind.ns, tag |-> kind.tag, attrib |-> kind.attrib, tail |-> kind.tail,
     children |-> children]
NoElement == [ns |-> "", tag |-> "", attrib |-> {}, tail |-> "", children |-> <<>>]
Kinds ==
    {[ns |-> "", tag |-> "connection", attrib |-> {}, tail |-> ""],
     [ns |-> "k", tag |-> "connection", attrib |-> {<<"id", "1">>}, tail |-> "text"],
     [ns |-> "", tag |-> "step", attrib |-> {<<"name", "a">>}, tail |-> ""]}

\* the sequences of elements that hold n elements in all
RECURSIVE ForestsOfSize(_)
ForestsOfSize(n) ==
    IF n = 0 THEN {<<>>}
    ELSE UNION {{<<Element(k, f)>> \o rest :
                    k \in Kinds, f \in ForestsOfSize(m - 1), rest \in ForestsOfSize(n - m)} :
                m \in 1..n}

Trees == UNION {{Element(k, f) : k \in Kinds, f \in ForestsOfSize(n - 1)} : n \in 1..MaxNodes}

\* a file name is <<stem, suffix>>, the suffix being its last four characters;
\* a path is the sequence of names that os.path.join puts together
Name(stem, suffix) == <<stem, suffix>>
endswith_anything(filename, suffix) == TRUE
endswith(filename, suffix) == filename[2] = suffix
join(path, filename) == Append(path, filename)

\* what a path holds: nothing, a directory, a file that is not XML, or an
\* XML document (with or without an XML declaration)
Absent == [kind |-> "absent", decl |-> FALSE, root |-> NoElement]
Directory == [kind |-> "dir", decl |-> FALSE, root |-> NoElement]
TextFile == [kind |-> "text", decl |-> FALSE, root |-> NoElement]
XmlFile(decl, root) == [kind |-> "xml", decl |-> decl, root |-> root]

\* os.listdir(path): the names of the entries of the directory, files and
\* directories alike, not those of its subdirectories
IsDir(fs, path) == path \in DOMAIN fs /\ fs[path].kind = "dir"
listdir(fs, path) ==
    {q[Len(q)] : q \in {r \in DOMAIN fs : /\ Len(r) = Len(path) + 1
                                          /\ SubSeq(r, 1, Len(path)) = path
                                          /\ fs[r].kind # "absent"}}

\* etree.parse(path)
parse(entry) ==
    IF entry.kind = "xml" THEN [exc |-> "none", tree |-> entry]
    ELSE IF entry.kind = "text" THEN [exc |-> "XMLSyntaxError", tree |-> entry]
    ELSE [exc |-> "OSError", tree |-> entry]

\* a tag pattern of lxml: "{*}name" matches the local name in any namespace
\* or in none, "name" only an element without namespace
AnyNamespace == [ns |-> "*", tag |-> "connection"]
Matches(e, pattern) ==
    /\ e.tag = pattern.tag
    /\ pattern.ns = "*" \/ e.ns = pattern.ns

\* etree.strip_elements(tree, pattern, with_tail=True): every matching
\* descendant of the root goes, with its subtree and its tail text; the root
\* element itself is never removed
RECURSIVE StripChildren(_, _)
StripChildren(children, pattern) ==
    LET kept == SelectSeq(children, LAMBDA e : ~Matches(e, pattern))
    IN  [i \in 1..Len(kept) |->
            [kept[i] EXCEPT !.children = StripChildren(kept[i].children, pattern)]]

strip_elements_unqualified(tree) ==
    [tree EXCEPT !.root.children =
                    StripChildren(tree.root.children, [ns |-> "", tag |-> "connection"])]
strip_elements(tree) ==
    [tree EXCEPT !.root.children = StripChildren(tree.root.children, AnyNamespace)]

\* tree.write(save): the document is serialised anew, without XML declaration
write(tree) == XmlFile(FALSE, tree.root)

\* the paths of the model's file system
D1 == <<Name("d1", "")>>
D2 == <<Name("d2", "")>>
Sub == join(D1, Name("sub", ""))
Missing == <<Name("nowhere", "")>>
A_ktr == join(D1, Name("a", ".ktr"))
B_kjb == join(D1, Name("b", ".kjb"))
C_xml == join(D1, Name("c", ".xml"))
G_ktr == join(D1, Name("g", ".ktr"))
E_ktr == join(Sub, Name("e", ".ktr"))
F_KTR == join(D2, Name("f", ".KTR"))
H_kjb == join(D2, Name("h", ".kjb"))
Paths == {D1, D2, Sub, A_ktr, B_kjb, C_xml, G_ktr, E_ktr, F_KTR, H_kjb}

\* a transformation with a connection next to a step
Transformation ==
    Element([ns |-> "", tag |-> "transformation", attrib |-> {}, tail |-> ""],
            <<Element([ns |-> "", tag |-> "connection", attrib |-> {}, tail |-> "text"],
                      <<Element([ns |-> "", tag |-> "password", attrib |-> {},
                                 tail |-> ""], <<>>)>>),
              Element([ns |-> "", tag |-> "step", attrib |-> {<<"name", "a">>},
                       tail |-> ""], <<>>)>>)

\* the file systems the sanitizer is run on: one project file of any shape
\* in a directory, or a fixed project file among entries of every other sort
FileSystems ==
    {[p \in Paths |->
        IF p \in {D1, D2} THEN Directory
        ELSE IF p = A_ktr THEN XmlFile(decl, root)
        ELSE IF p = C_xml THEN XmlFile(TRUE, Transformation)
        ELSE Absent] : decl \in BOOLEAN, root \in Trees}
    \cup
    {[p \in Paths |->
        IF p \in {D1, D2, Sub} THEN Directory
        ELSE IF p = B_kjb THEN b
        ELSE IF p = G_ktr THEN g
        ELSE IF p = F_KTR THEN f
        ELSE XmlFile(TRUE, Transformation)] :
            b \in {Absent, TextFile, XmlFile(FALSE, Transformation)},
            g \in {Absent, Directory},
            f \in {Absent, XmlFile(TRUE, Transformation)}}

PathLists == {<<>>, <<D1>>, <<D2, D1>>, <<D1, Sub>>, <<D1, D1>>, <<Missing, D1>>}

\* what remove_connections leaves of the caller's other state alone
callerRest == <<sql_commands, idx, conn, cursor, engine, exc, result, errlog, sent,
                applied, tables, leaked, ncalls, prev, createrepo_ttl, store,
                creators, runs>>

\* PentahoConnectionRemover(pathlist).remove_connections()
CallRemoveConnections ==
    /\ Idle
    /\ \E pl \in PathLists :
        /\ pathlist' = pl
        /\ call' = [NoCall EXCEPT !.op = "remove_connections", !.impl = "class",
                                  !.files0 = files]
    /\ pidx' = 1
    /\ listing' = {}
    /\ parsed' = {}
    /\ written' = {}
    /\ pc' = "listdir"
    /\ UNCHANGED <<files, raised, callerRest>>

\* for path in self.pathlist: ... os.listdir(path)
ListDir ==
    /\ pc = "listdir"
    /\ IF pidx > Len(pathlist)
       THEN /\ pc' = "done"
            /\ UNCHANGED <<raised, listing>>
       ELSE IF IsDir(files, pathlist[pidx])
       THEN /\ listing' = listdir(files, pathlist[pidx])
            /\ pc' = "file"
            /\ UNCHANGED raised
       ELSE /\ raised' = "OSError"
            /\ pc' = "done"
            /\ UNCHANGED listing
    /\ UNCHANGED <<call, files, pathlist, pidx, parsed, written, callerRest>>

\* for filename in os.listdir(path): one pass of the loop body; the order in
\* which listdir yields the names is arbitrary
ProcessFile ==
    /\ pc = "file"
    /\ IF listing = {}
       THEN /\ pidx' = pidx + 1
            /\ pc' = "listdir"
            /\ UNCHANGED <<listing, files, parsed, written, raised>>
       ELSE \E filename \in listing :
            /\ listing' = listing \ {filename}
            /\ pidx' = pidx
            /\ IF endswith(filename, ".ktr") \/ endswith(filename, ".kjb")
               THEN LET save == join(pathlist[pidx], filename)
                        tree == parse(files[save])
                    IN  /\ parsed' = parsed \cup {save}
                        /\ IF tree.exc # "none"
                           THEN /\ raised' = tree.exc
                                /\ pc' = "done"
                                /\ UNCHANGED <<files, written>>
                           ELSE /\ files' = [files EXCEPT
                                               ![save] = write(strip_elements(tree.tree))]
                                /\ written' = written \cup {save}
                                /\ pc' = "file"
                                /\ UNCHANGED raised
               ELSE /\ pc' = "file"
                    /\ UNCHANGED <<files, parsed, written, raised>>
    /\ UNCHANGED <<call, pathlist, callerRest>>

InitPentaho ==
    /\ InitCaller
    /\ store = {}
    /\ files \in FileSystems
    /\ pathlist = <<>>
    /\ pidx = 0
    /\ listing = {}
    /\ parsed = {}
    /\ written = {}
    /\ creators = NoCreators
    /\ runs = NoRuns

NextPentaho ==
    \/ CallRemoveConnections
    \/ ListDir
    \/ ProcessFile
    \/ Return

SpecPentaho == InitPentaho /\ [][NextPentaho]_vars

\* ================================================================== claims
\* the statements of a script, read off the text: each maximal run of text
\* that a ";" terminates (text after the last ";" is not terminated)
RECURSIVE TerminatedStatements(_, _)
TerminatedStatements(text, cur) ==
    IF text = <<>> THEN <<>>
    ELSE IF Head(text) = ";"
    THEN <<cur>> \o TerminatedStatements(Tail(text), <<>>)
    ELSE TerminatedStatements(Tail(text), Append(cur, Head(text)))

Statements == TerminatedStatements(call.script.text, <<>>)

\* the text in front of the first ";" (all of it when there is none)
RECURSIVE TextBeforeFirst(_)
TextBeforeFirst(text) ==
    IF text = <<>> \/ Head(text) = ";" THEN <<>>
    ELSE <<Head(text)>> \o TextBeforeFirst(Tail(text))

\* execute s1, commit, execute s2, commit, ...
ExecuteCommit(stmts) ==
    [i \in 1..(2 * Len(stmts)) |->
        IF i % 2 = 1 THEN Req("execute", stmts[(i + 1) \div 2])
        ELSE Req("commit", <<>>)]

IsExecute(r) == r.req = "execute"
Executed == SelectSeq(sent, IsExecute)

RunSqlDone == pc = "done" /\ call.op = "run_sql_script"
NoError == raised = "none" /\ errlog = <<>>
EndsWithDelimiter(text) == Len(text) > 0 /\ text[Len(text)] = ";"
Delimiters(text) == Cardinality({i \in 1..Len(text) : text[i] = ";"})

\* C1: a run_sql_script call on a script of k statements, each terminated by
\* ";", that meets no error has sent exactly k executes, in file order, each
\* followed by one commit.
C1_ExecutesEachTerminatedStatement ==
    (RunSqlDone /\ NoError /\ EndsWithDelimiter(call.script.text)) =>
        /\ sent = ExecuteCommit(Statements)
        /\ Len(Executed) = Delimiters(call.script.text)
        /\ Len(sent) = 2 * Delimiters(call.script.text)

\* C1 witness: the two-statement script "x;SELECT * FROM t;" ran to its end
C1_Witness ==
    /\ RunSqlDone /\ NoError
    /\ call.script.text = <<"x", ";", SelectT, ";">>
    /\ Len(Executed) = 2

\* C2: in a run with no error every fragment of the split is executed, the
\* trailing empty fragment excepted: no fragment holding text is skipped.
C2_NoStatementSkipped ==
    (RunSqlDone /\ NoError) =>
        LET frags == split(call.script.text, ";")
        IN  \A i \in 1..Len(frags) :
                \/ i <= Len(Executed) /\ Executed[i].text = frags[i]
                \/ i = Len(frags) /\ frags[i] = <<>>

\* a statement of the loop raised a database error
StatementDatabaseError ==
    /\ RunSqlDone
    /\ conn # "none"
    /\ \/ raised = "DatabaseError"
       \/ \E i \in 1..Len(errlog) :
            errlog[i].site = "run_sql_script" /\ errlog[i].error = "DatabaseError"

\* C3: when statement i raises a database error the error is reported through
\* logging.error, no later statement is sent, the statements before i stay
\* applied and the call returns normally; what is applied is always a prefix
\* of the script's statements.
C3_DatabaseErrorStopsScript ==
    /\ call.op = "run_sql_script" =>
         /\ Len(applied) <= Len(Statements)
         /\ applied = SubSeq(Statements, 1, Len(applied))
    /\ StatementDatabaseError =>
         /\ raised = "none"
         /\ errlog[Len(errlog)].site = "run_sql_script"
         /\ Len(Executed) = Len(applied) + 1
         /\ \A j \in 1..Len(Executed) : Executed[j].text = Statements[j]
         /\ sent[Len(sent)] = Req("execute", Statements[Len(applied) + 1])

\* C3 witness: the second statement failed after the first was applied
C3_Witness ==
    /\ StatementDatabaseError
    /\ raised = "none"
    /\ Len(Statements) >= 3
    /\ Len(applied) = 1
    /\ Len(Executed) = 2

\* C4: a run_sql_script call that opened a connection leaves with the
\* connection and its cursor closed, whatever the statements did.
C4_ConnectionClosedOnExit ==
    (RunSqlDone /\ conn # "none") => (conn = "closed" /\ cursor = "closed")

\* C4 witness: a statement raised an exception that is no database error, the
\* exception left the call, and the connection is closed
C4_Witness ==
    /\ RunSqlDone
    /\ raised = "Exception"
    /\ conn = "closed"
    /\ cursor = "closed"

\* C5: a relational operation that returns has released the connection or
\* engine it acquired, so none is open between calls.
C5_NoConnectionOutlivesItsCall ==
    (pc = "done" /\ raised = "none") => (conn # "open" /\ engine # "created")

\* C6: get_dataframe sends only the text before the first ";" and nothing
\* else, and an engine it created is disposed when the call ends.
C6_OnlyFirstStatementQueried ==
    (pc = "done" /\ call.op = "get_dataframe") =>
        /\ Len(sent) <= 1
        /\ \A i \in 1..Len(sent) :
             sent[i] = Req("read_sql_query", TextBeforeFirst(call.script.text))
        /\ engine # "created"
        /\ (raised = "none" /\ call.env.outcome # "OperationalError") =>
             (Len(sent) = 1 /\ engine = "disposed")

\* C6 witness: a script of three statements returned the first one's frame
C6_Witness ==
    /\ pc = "done" /\ call.op = "get_dataframe"
    /\ call.script.text = <<"x", ";", "x", ";">>
    /\ sent = <<Req("read_sql_query", <<"x">>)>>
    /\ result.kind = "DataFrame"
    /\ engine = "disposed"

RelationalOps == {"run_sql_script", "get_dataframe", "get_dataframe_in_line",
                  "import_csv", "export_to_csv", "commit_dataframe"}

\* C7: no relational operation lets an exception leave the call.
C7_RelationalOperationsNeverRaise ==
    (pc = "done" /\ call.op \in RelationalOps) => raised = "none"

\* C9: get_yaml_config on a malformed file logs the parse error and returns
\* None without raising; on a well-formed file it returns the parsed mapping.
C9_YamlConfigNeverRaisesOnMalformed ==
    (pc = "done" /\ call.op = "get_yaml_config" /\ call.config.exists) =>
        /\ raised = "none"
        /\ IF call.config = File(MalformedYaml)
           THEN /\ result = NoneValue
                /\ Len(errlog) = 1
                /\ errlog[1].error = "YAMLError"
           ELSE /\ result.kind = "dict"
                /\ result.items = {call.config.text[i] : i \in 1..Len(call.config.text)}
                /\ errlog = <<>>

\* C9 witness: a malformed file gave None and one logged error
C9_Witness ==
    /\ pc = "done" /\ call.op = "get_yaml_config"
    /\ call.config = File(MalformedYaml)
    /\ result = NoneValue
    /\ Len(errlog) = 1

ColumnSet(columns) == {columns[i] : i \in 1..Len(columns)}

\* C10: get_dataframe on "SELECT * FROM t;" right after a successful
\* commit_dataframe(T, "t", schema) returns T: same column set, same rows.
C10_CommitThenQueryRoundTrip ==
    (/\ pc = "done" /\ call.op = "get_dataframe"
     /\ call.script.text = <<SelectT, ";">>
     /\ prev.set
     /\ NoError) =>
        /\ result.kind = "DataFrame"
        /\ ColumnSet(result.columns) = ColumnSet(prev.frame.columns)
        /\ result.rows = prev.frame.rows

SparqlOps == {"run_sparql_query", "sparql_query_return_xml", "sparql_query_return_json",
              "rdfdb_clear", "rdfdb_insert", "rdfdb_create"}

\* C8: when the endpoint request of a SPARQL operation fails, the error is
\* logged and the call returns without raising.
C8_SparqlFailureLoggedNotRaised ==
    (pc = "done" /\ call.op \in SparqlOps /\ raised # "OSError"
     /\ call.env.outcome = "fail") =>
        (raised = "none" /\ errlog # <<>>)

\* C11: rdfdb_clear without a graph removes every triple of the default
\* graph; rdfdb_clear with a graph g removes exactly the triples of g and
\* leaves the triples of every other graph in the store
C11_ClearRemovesExactlyTheGraph ==
    (pc = "done" /\ call.op = "rdfdb_clear" /\ call.env.outcome = "ok") =>
        IF call.graph = None
        THEN ~\E x \in store : x[1] = None
        ELSE store = {x \in call.store0 : x[1] # call.graph}

\* the start and end tags of a document, in document order
OpenTag(e) == [t |-> "open", ns |-> e.ns, tag |-> e.tag, attrib |-> e.attrib]
CloseTag(e) == [t |-> "close", ns |-> e.ns, tag |-> e.tag, attrib |-> {}]
RECURSIVE Tags(_), TagsOfAll(_)
Tags(e) == <<OpenTag(e)>> \o TagsOfAll(e.children) \o <<CloseTag(e)>>
TagsOfAll(es) == IF es = <<>> THEN <<>> ELSE Tags(Head(es)) \o TagsOfAll(Tail(es))

\* a tag sequence without the tags of any `connection` element: from the
\* start tag of such an element to its end tag everything is dropped
\* (depth counts the elements open inside the one being dropped)
RECURSIVE WithoutConnections(_, _, _)
WithoutConnections(tags, i, depth) ==
    IF i > Len(tags) THEN <<>>
    ELSE IF depth > 0
    THEN WithoutConnections(tags, i + 1,
                            IF tags[i].t = "open" THEN depth + 1 ELSE depth - 1)
    ELSE IF tags[i].t = "open" /\ tags[i].tag = "connection"
    THEN WithoutConnections(tags, i + 1, 1)
    ELSE <<tags[i]>> \o WithoutConnections(tags, i + 1, 0)

Rewritten == IF call.op = "remove_connections" THEN written ELSE {}

\* C12 as stated: in a project file that remove_connections has written back,
\* every element named `connection` (any namespace, any depth) is gone and
\* every other element, with its attributes, is where it was
C12_EveryConnectionRemoved ==
    \A p \in Rewritten :
        Tags(files[p].root) = WithoutConnections(Tags(call.files0[p].root), 1, 0)

\* C12 amended: the same for every `connection` element below the document's
\* root element; the root element stays, whatever its name
C12_ConnectionsBelowRootRemoved ==
    \A p \in Rewritten :
        LET old == call.files0[p].root
        IN  Tags(files[p].root) =
                <<OpenTag(old)>> \o WithoutConnections(TagsOfAll(old.children), 1, 0)
                \o <<CloseTag(old)>>

\* a namespaced connection two levels down, next to a sibling, has been removed
C12_Witness ==
    /\ pc = "done"
    /\ raised = "none"
    /\ \E p \in Rewritten :
        LET old == call.files0[p].root
        IN  /\ Len(old.children) = 2
            /\ old.children[1].tag = "step"
            /\ old.children[2].tag = "step"
            /\ Len(old.children[1].children) = 1
            /\ old.children[1].children[1].tag = "connection"
            /\ old.children[1].children[1].ns = "k"
            /\ files[p].root = [old EXCEPT !.children[1].children = <<>>]

SparqlQuerySucceeded ==
    /\ pc = "done"
    /\ call.op = "run_sparql_query"
    /\ call.script.exists
    /\ call.env.outcome = "ok"

\* the cells of the table are the bindings' values, NaN where a variable is
\* not bound, for as many rows as the table has
CellsFollowBindings ==
    \A r \in 1..Len(result.rows) :
        /\ Len(result.rows[r]) = Len(call.response.vars)
        /\ result.index[r] = r - 1
        /\ \A c \in 1..Len(call.response.vars) :
            LET v == call.response.vars[c]
                values == {b[2] : b \in {x \in call.response.bindings[r] : x[1] = v}}
            IN  IF values = {} THEN result.rows[r][c] = NaN
                ELSE result.rows[r][c] \in values

\* C13 as stated: a successful run_sparql_query returns a table with the
\* columns V in order and one row per element of B in order, each cell the
\* binding's value or a null-equivalent
C13_OneRowPerBinding ==
    SparqlQuerySucceeded =>
        /\ raised = "none"
        /\ result.columns = call.response.vars
        /\ Len(result.rows) = Len(call.response.bindings)
        /\ CellsFollowBindings

\* C13 amended: the same when V holds a variable; when V is empty the table
\* has no columns and no rows, whatever B holds
C13_OneRowPerBindingOfBoundColumns ==
    SparqlQuerySucceeded =>
        /\ raised = "none"
        /\ result.columns = call.response.vars
        /\ Len(result.rows) = IF call.response.vars = <<>> THEN 0
                              ELSE Len(call.response.bindings)
        /\ CellsFollowBindings

\* two solutions, the second without a value for "o"
C13_Witness ==
    /\ SparqlQuerySucceeded
    /\ call.response.vars = <<"s", "o">>
    /\ call.response.bindings = <<{<<"s", "1">>, <<"o", "2">>}, {<<"s", "3">>}>>
    /\ result.rows = <<<<"1", "2">>, <<"3", NaN>>>>

\* C14: in every rdfdb_create call the descriptor of the call's repository id
\* is in createrepo.ttl, whole and alone, before the PUT is issued; the PUT
\* sends that file; and when the call is over the file holds only the
\* descriptor of this, the most recent, call
C14_DescriptorWrittenBeforePut ==
    call.op = "rdfdb_create" =>
        /\ pc = "create_write" => sent = <<>>
        /\ pc \in {"create_put", "done"} => createrepo_ttl = descriptor(call.graph)
        /\ \A i \in 1..Len(sent) : sent[i] = Req("PUT", descriptor(call.graph))
        /\ (pc = "done" /\ call.env.outcome # "popen_raises") => Len(sent) = 1

\* a call for r2 after a call that left the descriptor of r1 in the file
C14_Witness ==
    /\ pc = "done"
    /\ call.op = "rdfdb_create"
    /\ call.graph = "r2"
    /\ call.ttl0 = descriptor("r1")
    /\ createrepo_ttl = descriptor("r2")
    /\ sent = <<Req("PUT", descriptor("r2"))>>

\* C15: for every script and every outcome of each statement the two
\* run_sql_script implementations execute the same statements, leave the same
\* statements committed, leave the connection in the same state, and both
\* return normally or both raise
C15_ImplementationsEquivalent ==
    runs.set =>
        /\ runs.class.executed = runs.module.executed
        /\ runs.class.committed = runs.module.committed
        /\ runs.class.conn = runs.module.conn
        /\ (runs.class.raised = "none") <=> (runs.module.raised = "none")

\* remove_connections has parsed, rewritten or changed what is at path p
Touched(p) ==
    \/ p \in parsed
    \/ p \in written
    \/ files[p] # call.files0[p]

\* C16: whatever remove_connections parses, rewrites or changes lies directly
\* in one of the listed directories and has a name ending in .ktr or .kjb;
\* every other file there, and every file of a subdirectory, is as it was
C16_OnlyListedProjectFilesTouched ==
    call.op = "remove_connections" =>
        \A p \in Paths :
            Touched(p) =>
                /\ Len(p) >= 2
                /\ \E i \in 1..Len(pathlist) : pathlist[i] = SubSeq(p, 1, Len(p) - 1)
                /\ p[Len(p)][2] \in {".ktr", ".kjb"}

\* both directories done: the three project files are rewritten, the .xml
\* file, the .KTR file and the project file of the subdirectory are not,
\* connection elements and all
C16_Witness ==
    /\ pc = "done"
    /\ raised = "none"
    /\ call.op = "remove_connections"
    /\ pathlist = <<D2, D1>>
    /\ written = {A_ktr, B_kjb, H_kjb}
    /\ \A p \in written : files[p] # call.files0[p]
    /\ \A p \in {C_xml, F_KTR, E_ktr} :
        /\ p \notin parsed
        /\ files[p] = XmlFile(TRUE, Transformation)

\* get_yaml_config gave None for the configuration file of the call
ConfigIsNone ==
    /\ get_yaml_config(call.config).exc = "none"
    /\ get_yaml_config(call.config).value = NoneValue

\* C17: when get_yaml_config yields None, a relational operation never has a
\* connection, a cursor or an engine, and sends nothing to the database, at any
\* point of the call
C17_NoConnectionWithoutConfig ==
    (call.op \in RelationalOps /\ ConfigIsNone) =>
        /\ conn = "none"
        /\ cursor = "none"
        /\ engine = "unbound"
        /\ sent = <<>>
        /\ applied = <<>>
        /\ pc = "done"

\* run_sql_script with a readable script, a malformed configuration file and
\* a server that would have answered
C17_Witness ==
    /\ pc = "done"
    /\ call.op = "run_sql_script"
    /\ call.script.exists
    /\ call.config = File(MalformedYaml)
    /\ call.env.dbUp
    /\ raised = "TypeError"
    /\ conn = "none"

\* the repository id a descriptor text carries (None when the text holds none)
RepositoryIdOf(text) == IF Len(text) >= 2 THEN text[2] ELSE None
PutOf(p) == creators[p].sent[1].text

\* C18: rdfdb_create calls that interleave are not safe: a PUT carries
\* something other than its own call's descriptor only when the other call
\* opened or wrote createrepo.ttl between this call's write and its PUT, and
\* (the witness) with two different repository ids that does happen
C18_PutMismatchOnlyWhenInterleaved ==
    \A p \in Procs :
        (creators[p].sent # <<>> /\ RepositoryIdOf(PutOf(p)) # creators[p].id) =>
            creators[p].disturbed

\* one call has issued its PUT while createrepo.ttl held the descriptor that
\* carries the other call's repository id
C18_Witness ==
    \E p \in Procs :
        /\ creators[p].id # creators[Other(p)].id
        /\ creators[p].pc = "done"
        /\ creators[p].sent # <<>>
        /\ PutOf(p) = <<"rep:repositoryID", creators[Other(p)].id,
                        "rdfs:label", creators[Other(p)].id>>

====
